---- MODULE Spec2Model ----
(***************************************************************************)
(* Model of dataflux_core/download.py: the DataFlux download algorithm     *)
(* (dataflux_download) with compose, decompose and download_single, run    *)
(* against a storage client whose compose concatenates the sources in      *)
(* order and whose every call may raise.                                   *)
(***************************************************************************)
EXTENDS Integers, Sequences, FiniteSets, TLC

(* ---------------- bounds of the explored inputs ---------------- *)
MaxLen == 4        \* longest input list with freely chosen sizes
MaxSize == 2       \* largest recorded size / actual length of an input object
MaxCap == 1        \* largest small max_composite_object_size
MinCap == 0 - 1    \* smallest max_composite_object_size (below every size)
MaxDeleteFailures == 2   \* how many delete calls may raise in one run
MaxConcLen == 3    \* longest input list of two concurrent invocations
MaxExtra == 2      \* how far past the limit the lists given to compose go

(* ---------------- program constants ---------------- *)
MAX_NUM_OBJECTS_TO_COMPOSE == 32
COMPOSED_PREFIX == "dataflux-composed-objects/"
INPUT_PREFIX == "data/"

\* a cap that the total size of no explored input exceeds
BigCap == 2 * MAX_NUM_OBJECTS_TO_COMPOSE + 1

\* spacing of the byte values of distinct objects
ByteStride == MaxSize + 1

VARIABLES
    objects,                    \* argument: list of (name, size)
    max_composite_object_size,  \* dataflux_download_optimization_params field
    bucket,                     \* the GCS bucket: object name -> bytes
    i,                          \* loop index (0-based as in the code)
    res,                        \* the list being built
    objects_slice,              \* the group being built
    curr_size,                  \* running total of the group
    composed_object_name,       \* name of the composite of the current group
    next_uuid,                  \* uuid.uuid4() values handed out so far
    pc,                         \* position in dataflux_download
    result,                     \* <<>> until the call returns, then <<res>>
    calls,                      \* storage client calls issued, in order
    logs,                       \* logging events emitted, in order
    plan,                       \* the planner's decisions, in order
    delete_failures,            \* number of delete calls that raised
    delete_error,               \* class of what the last raising delete raised
    storage_client,             \* "none" until a client exists, then "client"
    current,                    \* the invocation whose locals the variables hold
    parked                      \* locals of the other invocation, if there is one

vars == <<objects, max_composite_object_size, bucket, i, res, objects_slice,
          curr_size, composed_object_name, next_uuid, pc, result, calls,
          logs, plan, delete_failures, delete_error, storage_client,
          current, parked>>

\* what no step of dataflux_download changes
context == <<storage_client, current, parked>>

(* ---------------- helpers ---------------- *)
Min(a, b) == IF a <= b THEN a ELSE b

InputName(k) == [prefix |-> INPUT_PREFIX, id |-> k]

NoName == [prefix |-> "", id |-> 0]

\* the bytes the server holds for input object k when its length is n
ServerBytes(k, n) == [j \in 1..n |-> (ByteStride * k + j) % 256]

\* the sources built in reverse order
NamesReversed(objs) == [k \in 1..Len(objs) |-> objs[Len(objs) + 1 - k][1]]

\* the sources list built by compose, in the order of the group
Names(objs) == [k \in 1..Len(objs) |-> objs[k][1]]

RECURSIVE Concat(_)
Concat(ss) == IF ss = <<>> THEN <<>> ELSE Head(ss) \o Concat(Tail(ss))

\* the slice written as buf[a:b-1]
PySliceOffByOne(buf, a, b) == SubSeq(buf, a + 1, Min(b, Len(buf)) - 1)

\* Python's buf[a:b] for 0 <= a <= b
PySlice(buf, a, b) == SubSeq(buf, a + 1, Min(b, Len(buf)))

Call(op, name, sources, ok) ==
    [op |-> op, name |-> name, sources |-> sources, ok |-> ok]

\* blob.download_as_bytes of download_single
DownloadAsBytes(name) == bucket[name]

\* destination.compose(sources): server-side concatenation in order
ComposedBucket(dest, sources) ==
    [nm \in DOMAIN bucket \cup {dest} |->
        IF nm = dest THEN Concat([k \in 1..Len(sources) |-> bucket[sources[k]]])
        ELSE bucket[nm]]

DeletedBucket(name) == [nm \in DOMAIN bucket \ {name} |-> bucket[nm]]

\* the slicing loop with the slice end taken as blob_size, not start + blob_size
RECURSIVE DecomposeLoopEndIsSize(_, _, _, _)
DecomposeLoopEndIsSize(content, objs, start, acc) ==
    IF objs = <<>> THEN <<acc, start>>
    ELSE LET blob_size == Head(objs)[2]
         IN DecomposeLoopEndIsSize(content, Tail(objs), start + blob_size,
                                   Append(acc, PySlice(content, start, blob_size)))

\* the slicing loop of decompose: returns <<res, start>>
RECURSIVE DecomposeLoop(_, _, _, _)
DecomposeLoop(content, objs, start, acc) ==
    IF objs = <<>> THEN <<acc, start>>
    ELSE LET blob_size == Head(objs)[2]
         IN DecomposeLoop(content, Tail(objs), start + blob_size,
                          Append(acc, PySlice(content, start, start + blob_size)))

DecomposeSlices(content, objs) == DecomposeLoop(content, objs, 0, <<>>)[1]

DecomposeStart(content, objs) == DecomposeLoop(content, objs, 0, <<>>)[2]

\* the mismatch test written as start > len(content)
DecomposeLogsOnlyWhenLonger(content, objs) ==
    IF DecomposeLoop(content, objs, 0, <<>>)[2] > Len(content)
    THEN <<[kind |-> "decompose_length",
            got |-> DecomposeLoop(content, objs, 0, <<>>)[2], want |-> Len(content)]>>
    ELSE <<>>

\* logging.error of decompose, emitted when start != len(content)
DecomposeLogs(content, objs) ==
    IF DecomposeStart(content, objs) # Len(content)
    THEN <<[kind |-> "decompose_length",
            got |-> DecomposeStart(content, objs), want |-> Len(content)]>>
    ELSE <<>>

\* the inner while condition with <= on the number of objects
AdmitConditionOneMore ==
    /\ i < Len(objects)
    /\ curr_size <= max_composite_object_size
    /\ Len(objects_slice) <= MAX_NUM_OBJECTS_TO_COMPOSE

\* the inner while condition with the object limit one too small
AdmitConditionOneFewer ==
    /\ i < Len(objects)
    /\ curr_size <= max_composite_object_size
    /\ Len(objects_slice) < MAX_NUM_OBJECTS_TO_COMPOSE - 1

\* the inner while condition with < on the accumulated size
AdmitConditionStrict ==
    /\ i < Len(objects)
    /\ curr_size < max_composite_object_size
    /\ Len(objects_slice) < MAX_NUM_OBJECTS_TO_COMPOSE

\* condition of the inner while loop
AdmitCondition ==
    /\ i < Len(objects)
    /\ curr_size <= max_composite_object_size
    /\ Len(objects_slice) < MAX_NUM_OBJECTS_TO_COMPOSE

\* condition of the size test at the top of the outer loop body
IsOversized == objects[i + 1][2] > max_composite_object_size

\* the singleton test never taken
IsSingletonNever == Len(objects_slice) = 0

\* condition of the singleton test after the inner loop
IsSingleton == Len(objects_slice) = 1

(* ---------------- initial states ---------------- *)
LongLens == {MAX_NUM_OBJECTS_TO_COMPOSE, MAX_NUM_OBJECTS_TO_COMPOSE + 1,
             2 * MAX_NUM_OBJECTS_TO_COMPOSE + 1}

InitLocals ==
    /\ i = 0
    /\ res = <<>>
    /\ objects_slice = <<>>
    /\ curr_size = 0
    /\ composed_object_name = NoName
    /\ next_uuid = 0
    /\ pc = "loop"
    /\ result = <<>>
    /\ calls = <<>>
    /\ logs = <<>>
    /\ plan = <<>>
    /\ delete_failures = 0
    /\ delete_error = "none"
    /\ storage_client = "client"

\* short inputs: every size vector; at most one recorded size is stale
\* (stale = 0: none), the server then holding actual bytes for that object
InitShort ==
    \E n \in 0..MaxLen :
      \E sizes \in [1..n -> 0..MaxSize] :
        \E stale \in 0..n :
          \E actual \in 0..MaxSize :
            /\ stale = 0 => actual = 0
            /\ stale # 0 => actual # sizes[stale]
            /\ objects = [k \in 1..n |-> <<InputName(k), sizes[k]>>]
            /\ bucket = [nm \in {InputName(k) : k \in 1..n} |->
                            ServerBytes(nm.id, IF nm.id = stale THEN actual
                                               ELSE sizes[nm.id])]
            /\ max_composite_object_size \in MinCap..MaxCap

\* long inputs: uniform accurate sizes under a cap that is never reached
InitLong ==
    \E n \in LongLens :
      \E s \in 0..1 :
          /\ objects = [k \in 1..n |-> <<InputName(k), s>>]
          /\ bucket = [nm \in {InputName(k) : k \in 1..n} |->
                          ServerBytes(nm.id, s)]
          /\ max_composite_object_size = BigCap

\* the locals of an invocation that has not been given any input
NoInvocation ==
    [objects |-> <<>>, max_composite_object_size |-> 0, i |-> 0, res |-> <<>>,
     objects_slice |-> <<>>, curr_size |-> 0, composed_object_name |-> NoName,
     pc |-> "none", result |-> <<>>, calls |-> <<>>, logs |-> <<>>,
     plan |-> <<>>]

\* one invocation of dataflux_download
Init ==
    /\ InitLocals
    /\ InitShort \/ InitLong
    /\ current = 1
    /\ parked = NoInvocation

(* ---------------- dataflux_download ---------------- *)
\* while i < len(objects) is false: return res
Return ==
    /\ pc = "loop"
    /\ ~(i < Len(objects))
    /\ pc' = "done"
    /\ result' = <<res>>
    /\ UNCHANGED <<objects, max_composite_object_size, bucket, i, res,
                   objects_slice, curr_size, composed_object_name, next_uuid,
                   calls, logs, plan, delete_failures>>
    /\ UNCHANGED <<context, delete_error>>

\* the oversized branch without i += 1
DownloadOversizedNoAdvance ==
    /\ pc = "loop"
    /\ i < Len(objects)
    /\ IsOversized
    /\ LET curr_object_name == objects[i + 1][1]
       IN /\ calls' = Append(calls, Call("download", curr_object_name, <<>>, TRUE))
          /\ res' = Append(res, DownloadAsBytes(curr_object_name))
    /\ plan' = Append(plan, [kind |-> "oversized", first |-> i + 1, last |-> i + 1])
    /\ UNCHANGED <<objects, max_composite_object_size, bucket, i, objects_slice,
                   curr_size, composed_object_name, next_uuid, pc, result,
                   logs, delete_failures>>
    /\ UNCHANGED <<context, delete_error>>

\* size > cap: download_single succeeds
DownloadOversized ==
    /\ pc = "loop"
    /\ i < Len(objects)
    /\ IsOversized
    /\ LET curr_object_name == objects[i + 1][1]
       IN /\ calls' = Append(calls, Call("download", curr_object_name, <<>>, TRUE))
          /\ res' = Append(res, DownloadAsBytes(curr_object_name))
    /\ i' = i + 1
    /\ plan' = Append(plan, [kind |-> "oversized", first |-> i + 1, last |-> i + 1])
    /\ UNCHANGED <<objects, max_composite_object_size, bucket, objects_slice,
                   curr_size, composed_object_name, next_uuid, pc, result,
                   logs, delete_failures>>
    /\ UNCHANGED <<context, delete_error>>

\* size > cap: download_single raises
DownloadOversizedFail ==
    /\ pc = "loop"
    /\ i < Len(objects)
    /\ IsOversized
    /\ calls' = Append(calls, Call("download", objects[i + 1][1], <<>>, FALSE))
    /\ plan' = Append(plan, [kind |-> "oversized", first |-> i + 1, last |-> i + 1])
    /\ pc' = "raised"
    /\ UNCHANGED <<objects, max_composite_object_size, bucket, i, res,
                   objects_slice, curr_size, composed_object_name, next_uuid,
                   result, logs, delete_failures>>
    /\ UNCHANGED <<context, delete_error>>

\* size <= cap: objects_slice = [], curr_size = 0
OpenGroup ==
    /\ pc = "loop"
    /\ i < Len(objects)
    /\ ~IsOversized
    /\ objects_slice' = <<>>
    /\ curr_size' = 0
    /\ pc' = "inner"
    /\ UNCHANGED <<objects, max_composite_object_size, bucket, i, res,
                   composed_object_name, next_uuid, result, calls, logs, plan,
                   delete_failures>>
    /\ UNCHANGED <<context, delete_error>>

\* the inner loop body without curr_size += objects[i][1]
AdmitNoAccumulate ==
    /\ pc = "inner"
    /\ AdmitCondition
    /\ objects_slice' = Append(objects_slice, objects[i + 1])
    /\ i' = i + 1
    /\ UNCHANGED <<objects, max_composite_object_size, bucket, res, curr_size,
                   composed_object_name, next_uuid, pc, result, calls, logs,
                   plan, delete_failures>>
    /\ UNCHANGED <<context, delete_error>>

\* one iteration of the inner while loop
Admit ==
    /\ pc = "inner"
    /\ AdmitCondition
    /\ curr_size' = curr_size + objects[i + 1][2]
    /\ objects_slice' = Append(objects_slice, objects[i + 1])
    /\ i' = i + 1
    /\ UNCHANGED <<objects, max_composite_object_size, bucket, res,
                   composed_object_name, next_uuid, pc, result, calls, logs,
                   plan, delete_failures>>
    /\ UNCHANGED <<context, delete_error>>

\* the inner while condition is false
CloseGroup ==
    /\ pc = "inner"
    /\ ~AdmitCondition
    /\ pc' = "emit"
    /\ plan' = Append(plan, [kind |-> "group",
                             first |-> i - Len(objects_slice) + 1, last |-> i])
    /\ UNCHANGED <<objects, max_composite_object_size, bucket, i, res,
                   objects_slice, curr_size, composed_object_name, next_uuid,
                   result, calls, logs, delete_failures>>
    /\ UNCHANGED <<context, delete_error>>

\* len(objects_slice) == 1: download_single succeeds
DownloadSingleton ==
    /\ pc = "emit"
    /\ IsSingleton
    /\ LET object_name == objects_slice[1][1]
       IN /\ calls' = Append(calls, Call("download", object_name, <<>>, TRUE))
          /\ res' = Append(res, DownloadAsBytes(object_name))
    /\ pc' = "loop"
    /\ UNCHANGED <<objects, max_composite_object_size, bucket, i,
                   objects_slice, curr_size, composed_object_name, next_uuid,
                   result, logs, plan, delete_failures>>
    /\ UNCHANGED <<context, delete_error>>

\* the exception of download_single swallowed and the item skipped
DownloadSingletonFailSwallowed ==
    /\ pc = "emit"
    /\ IsSingleton
    /\ calls' = Append(calls, Call("download", objects_slice[1][1], <<>>, FALSE))
    /\ pc' = "loop"
    /\ UNCHANGED <<objects, max_composite_object_size, bucket, i, res,
                   objects_slice, curr_size, composed_object_name, next_uuid,
                   result, logs, plan, delete_failures>>
    /\ UNCHANGED <<context, delete_error>>

\* len(objects_slice) == 1: download_single raises
DownloadSingletonFail ==
    /\ pc = "emit"
    /\ IsSingleton
    /\ calls' = Append(calls, Call("download", objects_slice[1][1], <<>>, FALSE))
    /\ pc' = "raised"
    /\ UNCHANGED <<objects, max_composite_object_size, bucket, i, res,
                   objects_slice, curr_size, composed_object_name, next_uuid,
                   result, logs, plan, delete_failures>>
    /\ UNCHANGED <<context, delete_error>>

\* the length test written with >=
TooManyObjectsAtLimit == Len(objects_slice) >= MAX_NUM_OBJECTS_TO_COMPOSE

\* the length test at the top of compose
TooManyObjects == Len(objects_slice) > MAX_NUM_OBJECTS_TO_COMPOSE

\* the composite named by the number of the group within the call
FreshNamePerCall == [prefix |-> COMPOSED_PREFIX, id |-> Len(plan)]

\* the composite name without the uuid: the same name for every group
FreshNameReused == [prefix |-> COMPOSED_PREFIX, id |-> 1]

\* composed_object_name = COMPOSED_PREFIX + str(uuid.uuid4())
FreshName == [prefix |-> COMPOSED_PREFIX, id |-> next_uuid + 1]

\* compose(): destination.compose(sources) succeeds
Compose ==
    /\ pc = "emit"
    /\ ~IsSingleton
    /\ ~TooManyObjects
    /\ composed_object_name' = FreshName
    /\ next_uuid' = next_uuid + 1
    /\ calls' = Append(calls, Call("compose", FreshName, Names(objects_slice), TRUE))
    /\ bucket' = ComposedBucket(FreshName, Names(objects_slice))
    /\ pc' = "decompose"
    /\ UNCHANGED <<objects, max_composite_object_size, i, res, objects_slice,
                   curr_size, result, logs, plan, delete_failures>>
    /\ UNCHANGED <<context, delete_error>>

\* compose() raises: ValueError before any server call when there are more
\* than MAX_NUM_OBJECTS_TO_COMPOSE objects, else destination.compose raises
ComposeFail ==
    /\ pc = "emit"
    /\ ~IsSingleton
    /\ composed_object_name' = FreshName
    /\ next_uuid' = next_uuid + 1
    /\ calls' = IF TooManyObjects THEN calls
                ELSE Append(calls, Call("compose", FreshName,
                                        Names(objects_slice), FALSE))
    /\ pc' = "raised"
    /\ UNCHANGED <<objects, max_composite_object_size, bucket, i, res,
                   objects_slice, curr_size, result, logs, plan,
                   delete_failures>>
    /\ UNCHANGED <<context, delete_error>>

\* res.extend(decompose(...)): the download of the composite succeeds
Decompose ==
    /\ pc = "decompose"
    /\ composed_object_name \in DOMAIN bucket
    /\ LET composed_object_content == DownloadAsBytes(composed_object_name)
       IN /\ res' = res \o DecomposeSlices(composed_object_content, objects_slice)
          /\ logs' = logs \o DecomposeLogs(composed_object_content, objects_slice)
    /\ calls' = Append(calls, Call("download", composed_object_name, <<>>, TRUE))
    /\ pc' = "delete"
    /\ UNCHANGED <<objects, max_composite_object_size, bucket, i,
                   objects_slice, curr_size, composed_object_name, next_uuid,
                   result, plan, delete_failures>>
    /\ UNCHANGED <<context, delete_error>>

\* decompose(...): the download of the composite raises
DecomposeFail ==
    /\ pc = "decompose"
    /\ calls' = Append(calls, Call("download", composed_object_name, <<>>, FALSE))
    /\ pc' = "raised"
    /\ UNCHANGED <<objects, max_composite_object_size, bucket, i, res,
                   objects_slice, curr_size, composed_object_name, next_uuid,
                   result, logs, plan, delete_failures>>
    /\ UNCHANGED <<context, delete_error>>

\* the composite left in place: no delete call after decompose
DeleteSkipped ==
    /\ pc = "delete"
    /\ pc' = "loop"
    /\ UNCHANGED <<objects, max_composite_object_size, bucket, i, res,
                   objects_slice, curr_size, composed_object_name, next_uuid,
                   result, calls, logs, plan, delete_failures>>
    /\ UNCHANGED <<context, delete_error>>

\* composed_object.delete() succeeds
Delete ==
    /\ pc = "delete"
    /\ composed_object_name \in DOMAIN bucket
    /\ calls' = Append(calls, Call("delete", composed_object_name, <<>>, TRUE))
    /\ bucket' = DeletedBucket(composed_object_name)
    /\ pc' = "loop"
    /\ UNCHANGED <<objects, max_composite_object_size, i, res, objects_slice,
                   curr_size, composed_object_name, next_uuid, result, logs,
                   plan, delete_failures>>
    /\ UNCHANGED <<context, delete_error>>

\* composed_object.delete() raising without the try/except around it
DeleteFailPropagates ==
    /\ pc = "delete"
    /\ delete_failures < MaxDeleteFailures
    /\ calls' = Append(calls, Call("delete", composed_object_name, <<>>, FALSE))
    /\ delete_failures' = delete_failures + 1
    /\ pc' = "raised"
    /\ UNCHANGED <<objects, max_composite_object_size, bucket, i, res,
                   objects_slice, curr_size, composed_object_name, next_uuid,
                   result, logs, plan>>
    /\ delete_error' = "Exception"
    /\ UNCHANGED context

\* composed_object.delete() raises an exception derived from Exception:
\* except Exception: logging.exception(...)
DeleteFail ==
    /\ pc = "delete"
    /\ delete_failures < MaxDeleteFailures
    /\ calls' = Append(calls, Call("delete", composed_object_name, <<>>, FALSE))
    /\ logs' = Append(logs, [kind |-> "delete_exception", got |-> 0, want |-> 0])
    /\ delete_failures' = delete_failures + 1
    /\ pc' = "loop"
    /\ UNCHANGED <<objects, max_composite_object_size, bucket, i, res,
                   objects_slice, curr_size, composed_object_name, next_uuid,
                   result, plan>>
    /\ delete_error' = "Exception"
    /\ UNCHANGED context

\* composed_object.delete() raises something not derived from Exception
\* (KeyboardInterrupt, SystemExit, another BaseException): except Exception
\* does not catch it, nothing is logged and the call raises
DeleteInterrupted ==
    /\ pc = "delete"
    /\ delete_failures < MaxDeleteFailures
    /\ calls' = Append(calls, Call("delete", composed_object_name, <<>>, FALSE))
    /\ delete_failures' = delete_failures + 1
    /\ delete_error' = "BaseException"
    /\ pc' = "raised"
    /\ UNCHANGED <<objects, max_composite_object_size, bucket, i, res,
                   objects_slice, curr_size, composed_object_name, next_uuid,
                   result, logs, plan>>
    /\ UNCHANGED context

Next ==
    \/ Return
    \/ DownloadOversized
    \/ DownloadOversizedFail
    \/ OpenGroup
    \/ Admit
    \/ CloseGroup
    \/ DownloadSingleton
    \/ DownloadSingletonFail
    \/ Compose
    \/ ComposeFail
    \/ Decompose
    \/ DecomposeFail
    \/ Delete
    \/ DeleteFail
    \/ DeleteInterrupted

Spec == Init /\ [][Next]_vars

(* ---------------- compose called on its own ---------------- *)
\* compose(project_name, bucket_name, destination_blob_name, objects,
\* storage_client): objects_slice holds the argument objects and
\* composed_object_name the argument destination_blob_name
InitCompose ==
    \E n \in 0..(MAX_NUM_OBJECTS_TO_COMPOSE + MaxExtra) :
      \E s \in 0..1 :
        /\ objects_slice = [k \in 1..n |-> <<InputName(k), s>>]
        /\ bucket = [nm \in {InputName(k) : k \in 1..n} |->
                        ServerBytes(nm.id, s)]
        /\ storage_client \in {"none", "client"}
        /\ composed_object_name = [prefix |-> COMPOSED_PREFIX, id |-> 1]
        /\ objects = <<>>
        /\ max_composite_object_size = 0
        /\ i = 0
        /\ res = <<>>
        /\ curr_size = 0
        /\ next_uuid = 1
        /\ pc = "compose_entry"
        /\ result = <<>>
        /\ calls = <<>>
        /\ logs = <<>>
        /\ plan = <<>>
        /\ delete_failures = 0
        /\ delete_error = "none"
        /\ current = 1
        /\ parked = NoInvocation

\* what compose does on the client before destination.compose: the client
\* is constructed when none was given, then the bucket handle, the
\* destination blob and one blob per object are made
ClientOps ==
    (IF storage_client = "none"
     THEN <<Call("client", NoName, <<>>, TRUE)>> ELSE <<>>)
    \o <<Call("bucket", NoName, <<>>, TRUE),
         Call("blob", composed_object_name, <<>>, TRUE)>>
    \o [k \in 1..Len(objects_slice) |->
           Call("blob", objects_slice[k][1], <<>>, TRUE)]

\* len(objects) > MAX_NUM_OBJECTS_TO_COMPOSE: raise ValueError
ComposeValueError ==
    /\ pc = "compose_entry"
    /\ TooManyObjects
    /\ pc' = "raised"
    /\ UNCHANGED <<objects, max_composite_object_size, bucket, i, res,
                   objects_slice, curr_size, composed_object_name, next_uuid,
                   result, calls, logs, plan, delete_failures>>
    /\ UNCHANGED <<context, delete_error>>

\* destination.compose(sources) succeeds: return destination
ComposeCall ==
    /\ pc = "compose_entry"
    /\ ~TooManyObjects
    /\ storage_client' = "client"
    /\ calls' = calls \o ClientOps \o
                   <<Call("compose", composed_object_name,
                          Names(objects_slice), TRUE)>>
    /\ bucket' = ComposedBucket(composed_object_name, Names(objects_slice))
    /\ pc' = "composed"
    /\ UNCHANGED <<objects, max_composite_object_size, i, res, objects_slice,
                   curr_size, composed_object_name, next_uuid, result, logs,
                   plan, delete_failures, delete_error, current, parked>>

\* destination.compose(sources) raises
ComposeCallRaises ==
    /\ pc = "compose_entry"
    /\ ~TooManyObjects
    /\ storage_client' = "client"
    /\ calls' = calls \o ClientOps \o
                   <<Call("compose", composed_object_name,
                          Names(objects_slice), FALSE)>>
    /\ pc' = "raised"
    /\ UNCHANGED <<objects, max_composite_object_size, bucket, i, res,
                   objects_slice, curr_size, composed_object_name, next_uuid,
                   result, logs, plan, delete_failures, delete_error, current, parked>>

NextCompose ==
    \/ ComposeValueError
    \/ ComposeCall
    \/ ComposeCallRaises

SpecCompose == InitCompose /\ [][NextCompose]_vars

(* ---------------- two concurrent invocations ---------------- *)
\* the locals of the invocation that is running
CurrentLocals ==
    [objects |-> objects,
     max_composite_object_size |-> max_composite_object_size,
     i |-> i, res |-> res, objects_slice |-> objects_slice,
     curr_size |-> curr_size, composed_object_name |-> composed_object_name,
     pc |-> pc, result |-> result, calls |-> calls, logs |-> logs,
     plan |-> plan]

\* the locals of a call of dataflux_download at the top of its loop
StartLocals(objs, cap) ==
    [objects |-> objs, max_composite_object_size |-> cap, i |-> 0,
     res |-> <<>>, objects_slice |-> <<>>, curr_size |-> 0,
     composed_object_name |-> NoName, pc |-> "loop", result |-> <<>>,
     calls |-> <<>>, logs |-> <<>>, plan |-> <<>>]

\* two invocations on one bucket: the first is given the objects in order,
\* the second the same objects in reverse order, each with its own cap
InitConcurrent ==
    \E n \in 2..MaxConcLen :
      \E sizes \in [1..n -> 0..1] :
        \E cap1 \in 0..MaxCap :
          \E cap2 \in 0..MaxCap :
            /\ InitLocals
            /\ objects = [k \in 1..n |-> <<InputName(k), sizes[k]>>]
            /\ max_composite_object_size = cap1
            /\ bucket = [nm \in {InputName(k) : k \in 1..n} |->
                            ServerBytes(nm.id, sizes[nm.id])]
            /\ current = 1
            /\ parked = StartLocals(
                            [k \in 1..n |-> <<InputName(n + 1 - k), sizes[n + 1 - k]>>],
                            cap2)

\* the scheduler runs the other invocation: the bucket, the uuid source and
\* the storage faults are shared, everything else is local to an invocation
Switch ==
    /\ parked.pc # "none"
    /\ parked' = CurrentLocals
    /\ current' = 3 - current
    /\ objects' = parked.objects
    /\ max_composite_object_size' = parked.max_composite_object_size
    /\ i' = parked.i
    /\ res' = parked.res
    /\ objects_slice' = parked.objects_slice
    /\ curr_size' = parked.curr_size
    /\ composed_object_name' = parked.composed_object_name
    /\ pc' = parked.pc
    /\ result' = parked.result
    /\ calls' = parked.calls
    /\ logs' = parked.logs
    /\ plan' = parked.plan
    /\ UNCHANGED <<bucket, next_uuid, delete_failures, delete_error,
                   storage_client>>

NextConcurrent ==
    \/ Next
    \/ Switch

SpecConcurrent == InitConcurrent /\ [][NextConcurrent]_vars

\* the call always takes its next step: every storage call returns or raises
LiveSpec == Spec /\ WF_vars(Next)

TypeOK ==
    /\ pc \in {"loop", "inner", "emit", "decompose", "delete", "done", "raised"}
    /\ i \in 0..Len(objects)
    /\ Len(result) <= 1
    /\ delete_error \in {"none", "Exception", "BaseException"}
(* ---------------- properties ---------------- *)
Last(s) == s[Len(s)]

NameOf(k) == objects[k][1]

SizeOf(k) == objects[k][2]

\* the bytes the server holds for input item k
ServerBytesOf(k) == bucket[NameOf(k)]

\* the recorded size of item k is the actual length of the server object
Accurate(k) == Len(ServerBytesOf(k)) = SizeOf(k)

SizesAccurate == \A k \in 1..Len(objects) : Accurate(k)

Returned == pc = "done"

\* plan entries that were fetched through a composite
IsMulti(p) == p.kind = "group" /\ p.last > p.first

ComposeCalls == {c \in 1..Len(calls) : calls[c].op = "compose"}

\* C1: with accurate recorded sizes and a positive cap, a call that returns
\* gives one payload per input item, payload k being the server bytes of
\* input item k (input order is preserved).
C1_OrderedPayloads ==
    (Returned /\ SizesAccurate /\ max_composite_object_size > 0) =>
        /\ Len(result[1]) = Len(objects)
        /\ \A k \in 1..Len(objects) : result[1][k] = ServerBytesOf(k)

\* a successful call that went through a composite of non-empty objects
\* followed by another item
C1_Witness ==
    /\ Returned /\ SizesAccurate /\ max_composite_object_size > 0
    /\ \E q \in 1..Len(plan) :
          /\ IsMulti(plan[q])
          /\ plan[q].last < Len(objects)
          /\ \A k \in plan[q].first..plan[q].last : SizeOf(k) > 0

\* C2 as stated: whatever the recorded sizes, a call that returns gives for
\* every item the server bytes of that item.
C2_AllOrNothing_Original ==
    Returned =>
        /\ Len(result[1]) = Len(objects)
        /\ \A k \in 1..Len(objects) : result[1][k] = ServerBytesOf(k)

\* the plan entry that covers input item k
EntryOf(k) == CHOOSE q \in 1..Len(plan) : plan[q].first <= k /\ k <= plan[q].last

\* item k was fetched with its own download, or its recorded size and those
\* of the members before it in its group are accurate
SliceReliable(k) ==
    \/ ~IsMulti(plan[EntryOf(k)])
    \/ \A j \in plan[EntryOf(k)].first..k : Accurate(j)

\* C2 amended: a call that returns gives one payload per item, and payload k
\* is the server bytes of item k whenever item k was fetched singly or the
\* recorded sizes of item k and of the members before it in its group are
\* accurate.
C2_PayloadsWhereSizesAccurate ==
    Returned =>
        /\ Len(result[1]) = Len(objects)
        /\ \A k \in 1..Len(objects) :
              SliceReliable(k) => result[1][k] = ServerBytesOf(k)

\* a successful call with a stale size inside a composite: the member before
\* the stale one is right, a later payload is wrong
C2_Witness ==
    /\ Returned
    /\ \E q \in 1..Len(plan) : \E k \in 1..Len(objects) :
          /\ IsMulti(plan[q])
          /\ plan[q].first < k /\ k <= plan[q].last
          /\ ~Accurate(k)
          /\ SizeOf(plan[q].first) > 0
          /\ \E m \in k..plan[q].last : result[1][m] # ServerBytesOf(m)

\* C3 as stated: when the call has returned or raised, every composite that
\* was created has had a delete issued on it.
C3_DeleteOnEveryExit ==
    pc \in {"done", "raised"} =>
        \A c \in ComposeCalls :
            calls[c].ok =>
                \E d \in (c + 1)..Len(calls) :
                    calls[d].op = "delete" /\ calls[d].name = calls[c].name

\* C4 as stated: no item larger than the cap is ever a source of a compose,
\* and in a call that returns each such item has a download of its own.
C4_OversizedNeverComposed ==
    /\ \A c \in ComposeCalls :
          \A m \in 1..Len(calls[c].sources) :
              SizeOf(calls[c].sources[m].id) <= max_composite_object_size
    /\ Returned =>
          \A k \in 1..Len(objects) :
              SizeOf(k) > max_composite_object_size =>
                  \E d \in 1..Len(calls) :
                      calls[d].op = "download" /\ calls[d].name = NameOf(k)
\* sum of the recorded sizes of input items a..b
RECURSIVE SizeSum(_, _)
SizeSum(a, b) == IF a > b THEN 0 ELSE SizeSum(a, b - 1) + SizeOf(b)

\* the bytes of buf at positions a+1..b, as far as buf has them
Window(buf, a, b) ==
    LET lo == Min(a, Len(buf))
        hi == Min(b, Len(buf))
    IN [j \in 1..(hi - lo) |-> buf[lo + j]]

\* 0-based index at which a group opened at index k closes when nothing raises
RECURSIVE GroupEnd(_, _, _)
GroupEnd(k, total, count) ==
    IF /\ k < Len(objects)
       /\ total <= max_composite_object_size
       /\ count < MAX_NUM_OBJECTS_TO_COMPOSE
    THEN GroupEnd(k + 1, total + SizeOf(k + 1), count + 1)
    ELSE k

\* the payloads of items a+1..b cut out of the concatenation of their bytes
GroupPayloads(a, b) ==
    LET buf == Concat([m \in 1..(b - a) |-> ServerBytesOf(a + m)])
    IN [m \in 1..(b - a) |->
           Window(buf, SizeSum(a + 1, a + m - 1), SizeSum(a + 1, a + m))]

\* the result of the call from 0-based index k on when no storage call raises
RECURSIVE FaultFreeResult(_)
FaultFreeResult(k) ==
    IF k >= Len(objects) THEN <<>>
    ELSE IF SizeOf(k + 1) > max_composite_object_size
         THEN <<ServerBytesOf(k + 1)>> \o FaultFreeResult(k + 1)
         ELSE LET e == GroupEnd(k, 0, 0)
              IN IF e - k = 1
                 THEN <<ServerBytesOf(k + 1)>> \o FaultFreeResult(e)
                 ELSE GroupPayloads(k, e) \o FaultFreeResult(e)

\* the step in which composed_object.delete() raised
DeleteRaisedStep ==
    /\ pc = "delete"
    /\ Len(calls') = Len(calls) + 1
    /\ Last(calls').op = "delete"
    /\ ~Last(calls').ok

\* C5 as stated: whatever the delete of a composite raises, the call does
\* not raise: no call ends raised with a delete as its last storage call.
C5_AnyDeleteFailure_Original ==
    (pc = "raised") => Last(calls).op # "delete"

\* C5 amended: when the delete of a composite raises an exception derived
\* from Exception, the call does not raise: it logs the failure and goes on
\* with the remaining items from the same position with the same payloads,
\* and a call in which deletes raised returns the result of a call in which
\* nothing raised; the call raises on a delete only for something not
\* derived from Exception, and logs nothing then.
C5_DeleteFailureTolerated ==
    /\ [][(DeleteRaisedStep /\ delete_error' = "Exception") =>
            /\ pc' = "loop"
            /\ logs' = Append(logs, [kind |-> "delete_exception", got |-> 0, want |-> 0])
            /\ UNCHANGED <<i, res, result, objects, max_composite_object_size>>]_vars
    /\ [][(DeleteRaisedStep /\ delete_error' # "Exception") =>
            (pc' = "raised" /\ logs' = logs /\ result' = result)]_vars
    /\ []((Returned /\ delete_failures > 0) => result = <<FaultFreeResult(0)>>)
    /\ []((pc = "raised" /\ Last(calls).op = "delete") =>
            delete_error = "BaseException")

\* a call that returned although a delete raised and that fetched further
\* items after the failed delete
C5_Witness ==
    /\ Returned
    /\ \E d \in 1..Len(calls) :
          /\ calls[d].op = "delete" /\ ~calls[d].ok
          /\ d < Len(calls)
    /\ Len(result[1]) = Len(objects)

\* C6 as stated: every group the planner forms has a total recorded size of
\* at most the cap.
C6_GroupWithinCap ==
    \A q \in 1..Len(plan) :
        plan[q].kind = "group" =>
            SizeSum(plan[q].first, plan[q].last) <= max_composite_object_size

\* C7: every group the planner forms has between 1 and
\* MAX_NUM_OBJECTS_TO_COMPOSE members, so compose is never called with too
\* many objects.
C7_GroupLength ==
    /\ \A q \in 1..Len(plan) :
          plan[q].kind = "group" =>
              /\ 1 <= plan[q].last - plan[q].first + 1
              /\ plan[q].last - plan[q].first + 1 <= MAX_NUM_OBJECTS_TO_COMPOSE
    /\ pc = "emit" =>
          /\ Len(objects_slice) >= 1
          /\ Len(objects_slice) <= MAX_NUM_OBJECTS_TO_COMPOSE
    /\ \A c \in ComposeCalls :
          Len(calls[c].sources) <= MAX_NUM_OBJECTS_TO_COMPOSE

\* a full group was composed while input items remained
C7_Witness ==
    \E q \in 1..Len(plan) : \E c \in ComposeCalls :
        /\ plan[q].kind = "group"
        /\ plan[q].last - plan[q].first + 1 = MAX_NUM_OBJECTS_TO_COMPOSE
        /\ plan[q].last < Len(objects)
        /\ Len(calls[c].sources) = MAX_NUM_OBJECTS_TO_COMPOSE
        /\ calls[c].ok

\* the plan covers the input items 1..n in order without gaps
PlanTiles(n) ==
    IF plan = <<>> THEN n = 0
    ELSE /\ plan[1].first = 1
         /\ Last(plan).last = n
         /\ \A q \in 1..(Len(plan) - 1) : plan[q + 1].first = plan[q].last + 1
         /\ \A q \in 1..Len(plan) : plan[q].first <= plan[q].last

\* the calls cs are exactly those of the plan entries pl: one download per
\* single item; one compose, one download and one delete per larger group
RECURSIVE CallsMatch(_, _)
CallsMatch(pl, cs) ==
    IF pl = <<>> THEN cs = <<>>
    ELSE LET p == Head(pl)
         IN IF p.first = p.last
            THEN /\ Len(cs) >= 1
                 /\ cs[1] = Call("download", NameOf(p.first), <<>>, TRUE)
                 /\ CallsMatch(Tail(pl), Tail(cs))
            ELSE /\ Len(cs) >= 3
                 /\ cs[1].op = "compose"
                 /\ cs[1].ok
                 /\ cs[1].name.prefix = COMPOSED_PREFIX
                 /\ cs[1].sources = [m \in 1..(p.last - p.first + 1) |->
                                        NameOf(p.first + m - 1)]
                 /\ cs[2] = Call("download", cs[1].name, <<>>, TRUE)
                 /\ cs[3].op = "delete"
                 /\ cs[3].name = cs[1].name
                 /\ CallsMatch(Tail(pl), SubSeq(cs, 4, Len(cs)))

\* C8: in a call that returns, the storage calls issued are exactly one
\* download per singly fetched item and, per group of two or more items, one
\* compose, one download of the composite and one delete attempt, in input
\* order and nothing else; an empty input issues no call.
C8_ExactCalls ==
    Returned =>
        /\ PlanTiles(Len(objects))
        /\ CallsMatch(plan, calls)
        /\ Len(objects) = 0 => (calls = <<>> /\ result = << <<>> >>)

\* a returned call with an oversized item, a composite group and a
\* singleton group
C8_Witness ==
    /\ Returned
    /\ \E q \in 1..Len(plan) : plan[q].kind = "oversized"
    /\ \E q \in 1..Len(plan) : IsMulti(plan[q])
    /\ \E q \in 1..Len(plan) : plan[q].kind = "group" /\ ~IsMulti(plan[q])

FailedFetches ==
    {c \in 1..Len(calls) : ~calls[c].ok /\ calls[c].op \in {"compose", "download"}}

\* C9: when compose or a download raises, the call raises and returns no
\* result; the raising call is the last storage call of the run (nothing is
\* issued for the failed composite or for later items), and a raised call
\* takes no further step.
C9_ErrorPropagates ==
    /\ [](\A c \in FailedFetches :
            /\ pc = "raised"
            /\ c = Len(calls)
            /\ result = <<>>
            /\ calls[c].op = "compose" =>
                  \A d \in 1..(c - 1) : calls[d].name # calls[c].name)
    /\ []((pc = "raised") => (result = <<>> /\ ~Last(calls).ok))
    /\ [][pc # "raised"]_vars

\* a compose raised after payloads of earlier items had been fetched and
\* while later items remained
C9_Witness ==
    /\ pc = "raised"
    /\ Last(calls).op = "compose"
    /\ res # <<>>
    /\ i < Len(objects)

\* C10: a step of decompose whose download succeeds never raises: it appends
\* one slice per member, slice k being the bytes of the buffer from the sum
\* of the preceding sizes up to that sum plus size k (cut at the end of the
\* buffer), and logs the length mismatch exactly when the sum of the sizes
\* differs from the length of the buffer.
C10_DecomposeSlices ==
    [][pc = "decompose" =>
        LET buf == bucket[composed_object_name]
            n == Len(objects_slice)
            a == i - n
        IN IF Last(calls').ok
           THEN /\ pc' = "delete"
                /\ res' = res \o
                     [k \in 1..n |->
                        Window(buf, SizeSum(a + 1, a + k - 1), SizeSum(a + 1, a + k))]
                /\ logs' = IF SizeSum(a + 1, i) # Len(buf)
                           THEN Append(logs, [kind |-> "decompose_length",
                                              got |-> SizeSum(a + 1, i),
                                              want |-> Len(buf)])
                           ELSE logs
           ELSE pc' = "raised" /\ res' = res /\ logs' = logs]_vars

\* decompose ran on a buffer shorter than the recorded sizes and on a
\* group whose last slice came out shorter than its recorded size
C10_Witness ==
    /\ pc = "delete"
    /\ logs # <<>>
    /\ Last(logs).kind = "decompose_length"
    /\ Last(logs).got > Last(logs).want
    /\ Len(Last(res)) < SizeOf(i)
\* the input items a+1..b all have accurate recorded sizes
PrefixAccurate(a, b) == \A j \in (a + 1)..b : Accurate(j)

\* C11: round trip of compose and decompose. The composite that decompose
\* downloads is the concatenation of the group's sources in compose order,
\* and decompose returns for member k exactly the bytes of source k whenever
\* the recorded sizes of members 1..k are accurate (all members when every
\* size is accurate, the members before j when member j is stale).
C11_RoundTrip ==
    [][(pc = "decompose" /\ pc' = "delete") =>
        LET n == Len(objects_slice)
            a == i - n
        IN /\ bucket[composed_object_name] =
                 Concat([m \in 1..n |-> ServerBytesOf(a + m)])
           /\ Len(res') = Len(res) + n
           /\ \A k \in 1..n :
                 PrefixAccurate(a, a + k) =>
                     res'[Len(res) + k] = ServerBytesOf(a + k)]_vars

\* decompose ran on a group of three whose last member is stale and whose
\* first two members are non-empty
C11_Witness ==
    /\ pc = "delete"
    /\ Len(objects_slice) >= 3
    /\ PrefixAccurate(i - Len(objects_slice), i - 1)
    /\ ~Accurate(i)
    /\ SizeOf(i - Len(objects_slice) + 1) > 0
    /\ res[Len(res)] # ServerBytesOf(i)

\* names of the input objects
InputNames == {NameOf(k) : k \in 1..Len(objects)}

\* C13: every compose destination and every delete target is a name
\* COMPOSED_PREFIX + id with an id generated by this call, no such name is
\* the name of an input object, the destinations of different groups are
\* pairwise distinct, and a delete targets a composite this call composed.
C13_OnlyOwnComposites ==
    /\ \A c \in 1..Len(calls) :
          calls[c].op \in {"compose", "delete"} =>
              /\ calls[c].name.prefix = COMPOSED_PREFIX
              /\ calls[c].name.id \in 1..next_uuid
              /\ calls[c].name \notin InputNames
    /\ \A c \in ComposeCalls : \A d \in ComposeCalls :
          c # d => calls[c].name # calls[d].name
    /\ \A d \in 1..Len(calls) :
          calls[d].op = "delete" =>
              \E c \in ComposeCalls :
                  c < d /\ calls[c].ok /\ calls[c].name = calls[d].name

\* two groups were composed and both composites had a delete issued
C13_Witness ==
    \E c \in ComposeCalls : \E d \in ComposeCalls :
        /\ c < d
        /\ \E x \in 1..Len(calls) :
              calls[x].op = "delete" /\ calls[x].name = calls[c].name
        /\ \E x \in 1..Len(calls) :
              calls[x].op = "delete" /\ calls[x].name = calls[d].name

\* every item and the whole input fit under the cap
AllWithinCap ==
    /\ \A k \in 1..Len(objects) : SizeOf(k) <= max_composite_object_size
    /\ SizeSum(1, Len(objects)) <= max_composite_object_size

\* number of groups of at most MAX_NUM_OBJECTS_TO_COMPOSE items covering n
GroupCount(n) ==
    (n + MAX_NUM_OBJECTS_TO_COMPOSE - 1) \div MAX_NUM_OBJECTS_TO_COMPOSE

\* C15: when every size and the total size are within the cap, the q-th
\* group holds the items 32(q-1)+1..min(32q, n): full groups of 32 and one
\* last group with the n mod 32 remaining items; a last group of one item is
\* fetched with a single download, without compose or delete.
C15_FullGroups ==
    AllWithinCap =>
        /\ \A q \in 1..Len(plan) :
              /\ plan[q].kind = "group"
              /\ plan[q].first = MAX_NUM_OBJECTS_TO_COMPOSE * (q - 1) + 1
              /\ plan[q].last = Min(MAX_NUM_OBJECTS_TO_COMPOSE * q, Len(objects))
        /\ Returned =>
              /\ Len(plan) = GroupCount(Len(objects))
              /\ Cardinality(ComposeCalls) =
                    Cardinality({q \in 1..Len(plan) : IsMulti(plan[q])})
              /\ (Len(objects) % MAX_NUM_OBJECTS_TO_COMPOSE = 1) =>
                    /\ Last(calls) = Call("download", NameOf(Len(objects)), <<>>, TRUE)
                    /\ Cardinality(ComposeCalls) = GroupCount(Len(objects)) - 1

\* a returned call on more than 32 small items, the last one fetched singly
C15_Witness ==
    /\ Returned
    /\ AllWithinCap
    /\ Len(objects) > MAX_NUM_OBJECTS_TO_COMPOSE
    /\ Len(objects) % MAX_NUM_OBJECTS_TO_COMPOSE = 1
    /\ Len(plan) >= 2
    /\ Last(calls).op = "download"

FailedDeletes == {d \in 1..Len(calls) : calls[d].op = "delete" /\ ~calls[d].ok}

DeleteLogs == {l \in 1..Len(logs) : logs[l].kind = "delete_exception"}

\* C16 as stated: each failed delete has exactly one error log event, and
\* that event carries the name of the composite whose delete failed.
C16_DeleteLogNamesComposite ==
    /\ Cardinality(DeleteLogs) = Cardinality(FailedDeletes)
    /\ \A d \in FailedDeletes :
          \E l \in DeleteLogs :
              "name" \in DOMAIN logs[l] /\ logs[l].name = calls[d].name

\* C17: one-overshoot bound. In every group the planner forms, the sizes of
\* all members but the last sum to at most the cap (so the total exceeds
\* the cap by at most the size of the last member), and the first member is
\* not larger than the cap.
C17_OneOvershoot ==
    \A q \in 1..Len(plan) :
        plan[q].kind = "group" =>
            /\ SizeSum(plan[q].first, plan[q].last - 1) <= max_composite_object_size
            /\ SizeOf(plan[q].first) <= max_composite_object_size
            /\ SizeSum(plan[q].first, plan[q].last)
                  <= max_composite_object_size + SizeOf(plan[q].last)

\* a group of three whose total exceeds the cap
C17_Witness ==
    \E q \in 1..Len(plan) :
        /\ plan[q].kind = "group"
        /\ plan[q].last >= plan[q].first + 2
        /\ SizeSum(plan[q].first, plan[q].last) > max_composite_object_size

\* C18: groups are maximal. A group that is followed by further input has
\* MAX_NUM_OBJECTS_TO_COMPOSE members or a total size above the cap.
C18_GroupsMaximal ==
    \A q \in 1..Len(plan) :
        (plan[q].kind = "group" /\ plan[q].last < Len(objects)) =>
            \/ plan[q].last - plan[q].first + 1 = MAX_NUM_OBJECTS_TO_COMPOSE
            \/ SizeSum(plan[q].first, plan[q].last) > max_composite_object_size

\* a group closed on size before the end of the input, after a group
\* closed on the object limit is covered by the long inputs
C18_Witness ==
    \E q \in 1..Len(plan) :
        /\ plan[q].kind = "group"
        /\ plan[q].last < Len(objects)
        /\ plan[q].last > plan[q].first
        /\ SizeSum(plan[q].first, plan[q].last) > max_composite_object_size
        /\ SizeSum(plan[q].first, plan[q].last - 1) = max_composite_object_size

\* composites this call created on which no delete has been issued
Undeleted ==
    {c \in ComposeCalls :
        /\ calls[c].ok
        /\ \A d \in (c + 1)..Len(calls) :
              ~(calls[d].op = "delete" /\ calls[d].name = calls[c].name)}

\* C20: per-group lifecycle. The call after a successful compose is the
\* download of that composite, the call after that download is the delete
\* of that composite, which is issued when the payloads of all items up to
\* i are in res; at most one created composite is without a delete attempt.
C20_Lifecycle ==
    /\ [](\A c \in ComposeCalls :
            /\ ~calls[c].ok => c = Len(calls)
            /\ c < Len(calls) =>
                  /\ calls[c + 1].op = "download"
                  /\ calls[c + 1].name = calls[c].name
            /\ c + 1 < Len(calls) =>
                  /\ calls[c + 1].ok
                  /\ calls[c + 2].op = "delete"
                  /\ calls[c + 2].name = calls[c].name)
    /\ [](Cardinality(Undeleted) <= 1)
    /\ []((pc = "loop") => Undeleted = {})
    /\ [][(Len(calls') > Len(calls) /\ Last(calls').op = "delete") =>
            (pc = "delete" /\ Len(res) = i /\ res' = res)]_vars

\* the second group was composed after the delete of the first one
C20_Witness ==
    \E c \in ComposeCalls :
        /\ c >= 4
        /\ calls[c - 1].op = "delete"
        /\ calls[c - 3].op = "compose"
        /\ pc = "delete"
\* the input index up to which the planner has decided
PlanEnd == IF plan = <<>> THEN 0 ELSE Last(plan).last

Terminated == pc \in {"done", "raised"}

\* C19: the call terminates (returns or raises) when every storage call
\* returns or raises; each pass of the outer loop starts at the index the
\* previous one reached and ends at a larger one (a group that is opened
\* admits at least one item), and the loop is left with a result exactly
\* when i = len(objects).
C19_Terminates ==
    /\ <>Terminated
    /\ []((pc = "loop") => (i = PlanEnd /\ i <= Len(objects)))
    /\ []((pc = "inner" /\ objects_slice = <<>>) => AdmitCondition)
    /\ []((pc = "emit") => (Len(objects_slice) >= 1 /\ i = PlanEnd))
    /\ [][plan' # plan =>
            /\ Len(plan') = Len(plan) + 1
            /\ Last(plan').first = PlanEnd + 1
            /\ Last(plan').last >= Last(plan').first
            /\ (pc' # "raised") => Last(plan').last = i']_vars
    /\ [][(pc = "loop" /\ pc' = "done") => i = Len(objects)]_vars
    /\ []((pc = "loop" /\ i = Len(objects)) => ENABLED Return)
    /\ [](Returned => i = Len(objects))

\* a call that returned after three passes of the outer loop
C19_Witness ==
    /\ Returned
    /\ Len(plan) >= 3
    /\ \E q \in 1..Len(plan) : IsMulti(plan[q])
\* C12: compose with more than MAX_NUM_OBJECTS_TO_COMPOSE objects raises
\* without constructing a client and without any bucket, blob or compose
\* operation; with at most that many objects it never raises for the
\* length and issues exactly one server compose, to the destination, whose
\* sources are the names of the objects in the given order.
C12_ComposeLimit ==
    [][pc = "compose_entry" =>
        IF Len(objects_slice) > MAX_NUM_OBJECTS_TO_COMPOSE
        THEN /\ pc' = "raised"
             /\ calls' = calls
             /\ storage_client' = storage_client
             /\ bucket' = bucket
        ELSE /\ Cardinality({c \in 1..Len(calls') : calls'[c].op = "compose"}) = 1
             /\ Last(calls').op = "compose"
             /\ Last(calls').name = composed_object_name
             /\ Last(calls').sources =
                   [k \in 1..Len(objects_slice) |-> objects_slice[k][1]]
             /\ pc' = (IF Last(calls').ok THEN "composed" ELSE "raised")
             /\ storage_client' = "client"]_vars

\* compose returned for a list of exactly MAX_NUM_OBJECTS_TO_COMPOSE objects
\* given without a client
C12_Witness ==
    /\ pc = "composed"
    /\ Len(objects_slice) = MAX_NUM_OBJECTS_TO_COMPOSE
    /\ calls[1].op = "client"
    /\ Len(bucket[composed_object_name]) = MAX_NUM_OBJECTS_TO_COMPOSE
\* names of composites that occur in a call log
CompositeNames(cs) ==
    {cs[c].name : c \in {d \in 1..Len(cs) : cs[d].name.prefix = COMPOSED_PREFIX}}

\* C14: with two invocations interleaved on one bucket, the composites one
\* invocation composes to, downloads or deletes are never those of the
\* other, each storage call of an invocation on a composite is on the
\* composite it composed last, and an invocation that returns gives the
\* result it gives when it runs alone and nothing raises.
C14_ConcurrentIsolation ==
    /\ CompositeNames(calls) \cap CompositeNames(parked.calls) = {}
    /\ \A c \in 1..Len(calls) :
          calls[c].op \in {"download", "delete"} /\ calls[c].name.prefix = COMPOSED_PREFIX
              => \E d \in 1..(c - 1) :
                    /\ calls[d].op = "compose"
                    /\ calls[d].ok
                    /\ calls[d].name = calls[c].name
    /\ pc = "decompose" =>
          /\ composed_object_name \in DOMAIN bucket
          /\ bucket[composed_object_name] =
                Concat([m \in 1..Len(objects_slice) |-> bucket[objects_slice[m][1]]])
    /\ Returned => result = <<FaultFreeResult(0)>>

\* one invocation has downloaded and split its composite while the
\* composite of the other, composed earlier and holding other bytes, is
\* still waiting for its download
C14_Witness ==
    /\ pc = "delete"
    /\ parked.pc = "decompose"
    /\ composed_object_name \in DOMAIN bucket
    /\ parked.composed_object_name \in DOMAIN bucket
    /\ parked.composed_object_name.id < composed_object_name.id
    /\ bucket[composed_object_name] # bucket[parked.composed_object_name]
    /\ res # <<>>
====
